---- MODULE Spec2Model ----
(***************************************************************************)
(* RBAC core of the laundry backend: permission taxonomy, the subset       *)
(* validator, the account hierarchy handlers (super admin -> admin /       *)
(* center admin -> staff) and the request-time permission checks.          *)
(***************************************************************************)
EXTENDS Integers, Sequences, FiniteSets, TLC

\* ---------------------------------------------------------------- bounds
MaxUsers == 3
MaxOps == 4
MaxCalls == 3

\* ------------------------------------------------------------ taxonomy
MODULES == <<"orders", "customers", "branches", "services",
             "financial", "reports", "users", "settings">>

COMMON_ACTIONS == <<"view", "create", "update", "delete">>

ADVANCED_ACTIONS(module) ==
  CASE module = "orders" -> <<"assign", "cancel", "refund">>
    [] module = "financial" -> <<"approve", "export">>
    [] module = "reports" -> <<"export">>
    [] module = "users" -> <<"assignRole">>
    [] module = "services" -> <<"approveChanges">>
    [] OTHER -> <<>>

getModuleActions(module) == COMMON_ACTIONS \o ADVANCED_ACTIONS(module)

Range(s) == {s[i] : i \in 1..Len(s)}

USER_ROLES ==
  [CUSTOMER |-> "customer", ADMIN |-> "admin", BRANCH_MANAGER |-> "branch_manager",
   SUPPORT_AGENT |-> "support_agent", CENTER_ADMIN |-> "center_admin", STAFF |-> "staff"]

\* ----------------------------------------------------- permission objects
\* A JS permissions value: `defined` is FALSE for undefined (field omitted);
\* `mods` are the keys of the object whose value is an object; `t` are the
\* (module, action) entries whose value is exactly true.  Entries that are
\* present with another value and entries that are absent read the same way
\* everywhere in the code (=== true), so they are not told apart.
PermObj(mods, t) == [defined |-> TRUE, mods |-> mods, t |-> t]

Undefined == [defined |-> FALSE, mods |-> {}, t |-> {}]

EmptyObject == PermObj({}, {})

getDefaultPermissions == PermObj(Range(MODULES), {})

getFullAccessPermissions ==
  PermObj(Range(MODULES),
          {<<m, a>> : m \in Range(MODULES), a \in {"view", "create", "update", "delete",
             "assign", "cancel", "refund", "approve", "export", "assignRole", "approveChanges"}}
            \cap {p \in Range(MODULES) \X {"view", "create", "update", "delete",
             "assign", "cancel", "refund", "approve", "export", "assignRole", "approveChanges"} :
                    p[2] \in Range(getModuleActions(p[1]))})

\* permissions?.[module]?.[action] === true
ReadTrue(permissions, module, action) ==
  permissions.defined /\ module \in permissions.mods /\ <<module, action>> \in permissions.t

\* the taxonomy flattened in iteration order (for module of MODULES, for action of actions)
RECURSIVE TaxonomyFrom(_)
TaxonomyFrom(i) ==
  IF i > Len(MODULES) THEN <<>>
  ELSE [k \in 1..Len(getModuleActions(MODULES[i])) |-> <<MODULES[i], getModuleActions(MODULES[i])[k]>>]
         \o TaxonomyFrom(i + 1)

TaxonomySeq == TaxonomyFrom(1)

\* `${module}.${action}`
dotted(p) == p[1] \o "." \o p[2]

\* variant: modules the admin's object has no key for are skipped
isPermissionSubset_adminModulesOnly(adminPermissions, staffPermissions) ==
  LET invalid ==
        SelectSeq(TaxonomySeq,
                  LAMBDA p : /\ p[1] \in staffPermissions.mods
                             /\ p[1] \in adminPermissions.mods
                             /\ ReadTrue(staffPermissions, p[1], p[2])
                             /\ ~ReadTrue(adminPermissions, p[1], p[2]))
      invalidPermissions == [i \in 1..Len(invalid) |-> dotted(invalid[i])]
  IN [isValid |-> Len(invalidPermissions) = 0, invalidPermissions |-> invalidPermissions]

\* variant: the loops stop at the first pair found
isPermissionSubset_firstOnly(adminPermissions, staffPermissions) ==
  LET invalid ==
        SelectSeq(TaxonomySeq,
                  LAMBDA p : /\ p[1] \in staffPermissions.mods
                             /\ ReadTrue(staffPermissions, p[1], p[2])
                             /\ ~ReadTrue(adminPermissions, p[1], p[2]))
      invalidPermissions == IF Len(invalid) = 0 THEN <<>> ELSE <<dotted(invalid[1])>>
  IN [isValid |-> Len(invalidPermissions) = 0, invalidPermissions |-> invalidPermissions]

isPermissionSubset(adminPermissions, staffPermissions) ==
  LET invalid ==
        SelectSeq(TaxonomySeq,
                  LAMBDA p : /\ p[1] \in staffPermissions.mods
                             /\ ReadTrue(staffPermissions, p[1], p[2])
                             /\ ~ReadTrue(adminPermissions, p[1], p[2]))
      invalidPermissions == [i \in 1..Len(invalid) |-> dotted(invalid[i])]
  IN [isValid |-> Len(invalidPermissions) = 0, invalidPermissions |-> invalidPermissions]

hasAtLeastOnePermission(permissions) ==
  /\ permissions.defined
  /\ \E module \in permissions.mods : \E p \in permissions.t : p[1] = module

\* ------------------------------------------------------------- input pools
\* Permission objects the requests of the model carry.
PermAdmin ==
  PermObj(Range(MODULES),
          {<<"orders", "view">>, <<"orders", "create">>, <<"users", "view">>,
           <<"users", "create">>, <<"users", "update">>, <<"users", "delete">>})

PermOrders == PermObj({"orders"}, {<<"orders", "view">>})

PermFinancial == PermObj({"orders", "financial"}, {<<"orders", "view">>, <<"financial", "view">>})

\* the center-admin structure of fix-center-admin-permissions.js: a module outside MODULES
PermLegacy == PermObj({"staff"}, {<<"staff", "view">>})

\* true entries outside the taxonomy: an action of another module, an unknown module
PermOutside ==
  PermObj({"customers", "inventory"}, {<<"customers", "refund">>, <<"inventory", "view">>})

NoBranch == "null"

\* an e-mail address: <<name, written in upper case>>
toLowerCase(email) == <<email[1], FALSE>>

\* ------------------------------------------------------- preset registry
viewAll == {<<m, "view">> : m \in Range(MODULES)}

\* PRESET_ROLES: the four templates, each a name, a description and a table
PRESET_ROLES ==
  [viewer |->
     [name |-> "Viewer", description |-> "Read-only access to all modules",
      permissions |-> PermObj(Range(MODULES), viewAll)],
   manager |->
     [name |-> "Manager",
      description |-> "Operational access with order management capabilities",
      permissions |->
        PermObj(Range(MODULES),
                viewAll \cup {<<"orders", "create">>, <<"orders", "update">>,
                              <<"orders", "assign">>, <<"orders", "cancel">>,
                              <<"customers", "create">>, <<"customers", "update">>,
                              <<"reports", "export">>,
                              <<"users", "create">>, <<"users", "update">>})],
   financeAdmin |->
     [name |-> "Finance Admin", description |-> "Financial operations and reporting access",
      permissions |->
        PermObj(Range(MODULES),
                (viewAll \ {<<"settings", "view">>})
                  \cup {<<"orders", "refund">>,
                        <<"financial", "create">>, <<"financial", "update">>,
                        <<"financial", "approve">>, <<"financial", "export">>,
                        <<"reports", "create">>, <<"reports", "export">>})],
   branchManager |->
     [name |-> "Branch Manager", description |-> "Full branch operations access",
      permissions |->
        PermObj(Range(MODULES),
                viewAll \cup {<<"orders", "create">>, <<"orders", "update">>,
                              <<"orders", "delete">>, <<"orders", "assign">>,
                              <<"orders", "cancel">>, <<"orders", "refund">>,
                              <<"customers", "create">>, <<"customers", "update">>,
                              <<"branches", "update">>,
                              <<"services", "create">>, <<"services", "update">>,
                              <<"financial", "create">>, <<"financial", "update">>,
                              <<"financial", "export">>,
                              <<"reports", "create">>, <<"reports", "update">>,
                              <<"reports", "export">>,
                              <<"users", "create">>, <<"users", "update">>,
                              <<"users", "delete">>, <<"users", "assignRole">>,
                              <<"settings", "update">>})]]

\* the value of `PRESET_ROLES[presetName] || null` for a name that is not a key
NullPreset == [name |-> "null", description |-> "null", permissions |-> Undefined]

\* getPresetRole: the registry's own entry, or null
getPresetRole(reg, presetName) ==
  IF presetName \in DOMAIN reg THEN reg[presetName] ELSE NullPreset

\* getAllPresetRoles: a new { key, name, description } object per entry
getAllPresetRoles(reg) ==
  [key \in DOMAIN reg |->
     [key |-> key, name |-> reg[key].name, description |-> reg[key].description]]

\* ------------------------------------------------------------------ state
VARIABLES
  users,      \* the User collection: users[id] is the document with _id = id
  last,       \* the request just handled and the response being sent for it
  nops,       \* number of requests handled so far
  inflight,   \* requests suspended at an await (interleaved specification)
  principal,  \* the principal (req.user || req.admin) of the permission checks
  decision,   \* the outcome of the permission check evaluated last
  audit,      \* the AuditLog.logAction calls of the request being answered
  registry    \* the preset registry (the module-level PRESET_ROLES object)

vars == <<users, last, nops, inflight, principal, decision, audit, registry>>

SuperAdminId == 0

\* the principal of the legacy CenterAdmin collection (centerAdminAuth.js)
LegacyCenterAdminId == -1

Ids == 1..Len(users)

NoResponse == [op |-> "none", actor |-> 0, target |-> 0, code |-> "none", count |-> 0]

\* count: staffDeactivated of a deactivation, activeStaffCount of getAdminById
Response(op, actor, target, code, count) ==
  [op |-> op, actor |-> actor, target |-> target, code |-> code, count |-> count]

\* a request is taken up when no response is being sent and the budget allows
Idle == last.op = "none" /\ nops < MaxOps

\* the argument of AuditLog.logAction: who, what, on which account, and the
\* changes.before / changes.after permissions where the handler passes them
AuditEntry(userId, userType, action, resourceId, before, after) ==
  [userId |-> userId, userType |-> userType, action |-> action, resourceId |-> resourceId,
   before |-> before, after |-> after, outcome |-> "attempted"]

\* the audit sink is reachable or not when the handler calls it
SinkStates == {"up", "down"}

\* AuditLog.logAction: the record is written when the sink is up; a failed
\* write is logged locally and is not raised to the caller
logAction(entry, sink) ==
  [record |-> [entry EXCEPT !.outcome = IF sink = "up" THEN "recorded" ELSE "failed"],
   threw |-> FALSE]

\* variant: the handler treats a record that was not written as an error
awaitLogAction_requiresRecord(code, logged) ==
  IF logged.threw \/ logged.record.outcome # "recorded" THEN "SERVER_ERROR" ELSE code

\* await AuditLog.logAction({...}) inside the handler's try: a rejection would
\* reach the catch block, which answers 500 SERVER_ERROR
awaitLogAction(code, logged) == IF logged.threw THEN "SERVER_ERROR" ELSE code

\* the tail of an audited handler: when its checks passed with `ok` and the
\* write is done, log the action and answer; otherwise answer the refusal
respond(op, actor, target, code, count, ok, entry) ==
  \E sink \in SinkStates :
    LET logged == logAction(entry, sink)
    IN /\ audit' = IF code = ok THEN <<logged.record>> ELSE <<>>
       /\ last' = Response(op, actor, target,
                           IF code = ok THEN awaitLogAction(code, logged) ELSE code, count)

\* new User({...}): the schema defaults fill what the handler leaves out
NewUser(email, phone, role, permissions, assignedBranch, createdBy, createdByModel) ==
  [email |-> email, phone |-> phone, role |-> role, permissions |-> permissions,
   assignedBranch |-> assignedBranch, createdBy |-> createdBy,
   createdByModel |-> createdByModel, isActive |-> TRUE, isEmailVerified |-> TRUE,
   staffCreated |-> <<>>]

\* User.findOne({ email }) / User.findOne({ phone })
findOneByEmail(db, email) == \E i \in 1..Len(db) : db[i].email = email

findOneByPhone(db, phone) == \E i \in 1..Len(db) : db[i].phone = phone

\* User.findOne({ _id: id, role: { $in: roles } })
findOneByRole(db, id, roles) == id \in 1..Len(db) /\ db[id].role \in roles

\* User.updateMany({ _id: { $in: ids } }, { $set: { isActive: false } })
updateManyInactive(db, ids) ==
  [i \in 1..Len(db) |-> IF i \in Range(ids) THEN [db[i] EXCEPT !.isActive = FALSE] ELSE db[i]]

modifiedCount(db, ids) == Cardinality({i \in 1..Len(db) : i \in Range(ids) /\ db[i].isActive})

\* the contact fields a creation request carries: unused ones (the e-mail in
\* either case) or ones that collide with the first account
ContactInputs ==
  LET fresh == Len(users) + 1
  IN {<<<<fresh, FALSE>>, fresh>>, <<<<fresh, TRUE>>, fresh>>}
       \cup (IF Len(users) > 0 THEN {<<<<1, TRUE>>, fresh>>, <<<<fresh, FALSE>>, 1>>} ELSE {})

\* protect: the token's user must exist and be active
protect(db, id) ==
  IF id \notin 1..Len(db) THEN "UNAUTHENTICATED"
  ELSE IF ~db[id].isActive THEN "UNAUTHENTICATED"
  ELSE "next"

\* restrictTo(...roles): center_admin in the list also admits superadmin
restrictTo(roles, userRole) ==
  LET effectiveRoles == IF "center_admin" \in roles \/ "super_admin" \in roles
                        THEN roles \cup {"superadmin"} ELSE roles
  IN IF userRole \notin effectiveRoles THEN "ACCESS_DENIED" ELSE "next"

\* -------------------------------------------------- permission middleware
\* USER_ROLES has no SUPERADMIN key: USER_ROLES.SUPERADMIN evaluates to undefined
USER_ROLES_SUPERADMIN == "undefined"

Principal(user) == [present |-> TRUE, role |-> user.role, permissions |-> user.permissions]

NoPrincipal == [present |-> FALSE, role |-> "undefined", permissions |-> Undefined]

\* variant: the role is compared with the USER_ROLES constant only
checkPermission_constantOnly(user, module, action) ==
  IF ~user.present THEN "UNAUTHORIZED"
  ELSE IF user.role = USER_ROLES_SUPERADMIN THEN "next"
  ELSE IF module \notin Range(MODULES) THEN "INVALID_MODULE"
  ELSE IF action \notin Range(getModuleActions(module)) THEN "INVALID_ACTION"
  ELSE IF ~ReadTrue(user.permissions, module, action) THEN "PERMISSION_DENIED"
  ELSE "next"

checkPermission(user, module, action) ==
  IF ~user.present THEN "UNAUTHORIZED"
  ELSE IF user.role = USER_ROLES_SUPERADMIN \/ user.role = "superadmin" THEN "next"
  ELSE IF module \notin Range(MODULES) THEN "INVALID_MODULE"
  ELSE IF action \notin Range(getModuleActions(module)) THEN "INVALID_ACTION"
  ELSE IF ~ReadTrue(user.permissions, module, action) THEN "PERMISSION_DENIED"
  ELSE "next"

checkModuleAccess(user, module) ==
  IF ~user.present THEN "UNAUTHORIZED"
  ELSE IF user.role = USER_ROLES_SUPERADMIN \/ user.role = "superadmin" THEN "next"
  ELSE IF ~(user.permissions.defined /\ module \in user.permissions.mods)
    THEN "PERMISSION_DENIED"
  ELSE IF ~(\E p \in user.permissions.t : p[1] = module) THEN "PERMISSION_DENIED"
  ELSE "next"

missingPermissions(user, permissions) ==
  SelectSeq(permissions, LAMBDA p : ~ReadTrue(user.permissions, p[1], p[2]))

checkPermissions(user, permissions) ==
  IF ~user.present THEN "UNAUTHORIZED"
  ELSE IF user.role = USER_ROLES_SUPERADMIN \/ user.role = "superadmin" THEN "next"
  ELSE IF Len(missingPermissions(user, permissions)) > 0 THEN "PERMISSION_DENIED"
  ELSE "next"

\* details.missing of the 403 answer: `${module}.${action}` of each pair pushed
checkPermissionsDetails(user, permissions) ==
  IF checkPermissions(user, permissions) # "PERMISSION_DENIED" THEN <<>>
  ELSE [i \in 1..Len(missingPermissions(user, permissions)) |->
          dotted(missingPermissions(user, permissions)[i])]

checkAnyPermission(user, permissions) ==
  IF ~user.present THEN "UNAUTHORIZED"
  ELSE IF user.role = USER_ROLES_SUPERADMIN \/ user.role = "superadmin" THEN "next"
  ELSE IF ~(\E i \in 1..Len(permissions) :
              ReadTrue(user.permissions, permissions[i][1], permissions[i][2]))
    THEN "PERMISSION_DENIED"
  ELSE "next"

\* the boolean utility: "next" stands for true, "false" for false
hasPermission(user, module, action) ==
  IF ~user.present THEN "false"
  ELSE IF user.role = USER_ROLES_SUPERADMIN \/ user.role = "superadmin" THEN "next"
  ELSE IF ReadTrue(user.permissions, module, action) THEN "next"
  ELSE "false"

\* userSchema.methods.hasPermission: the bypass compares with the USER_ROLES
\* constant only; "next" stands for true, "false" for false
userHasPermission(user, module, action) ==
  IF user.role = USER_ROLES_SUPERADMIN THEN "next"
  ELSE IF ~(user.permissions.defined /\ module \in user.permissions.mods) THEN "false"
  ELSE IF ReadTrue(user.permissions, module, action) THEN "next"
  ELSE "false"

\* userSchema.methods.hasModuleAccess: any value of the module's object is true
hasModuleAccess(user, module) ==
  IF user.role = USER_ROLES_SUPERADMIN THEN "next"
  ELSE IF ~(user.permissions.defined /\ module \in user.permissions.mods) THEN "false"
  ELSE IF \E p \in user.permissions.t : p[1] = module THEN "next"
  ELSE "false"

\* requireCenterAdminPermission: reads req.user.role without a guard (a
\* request without req.user throws), lets superadmin and admin through, and
\* tests the stored entry for truthiness; the stored values are booleans
requireCenterAdminPermission(user, module, action) ==
  IF ~user.present THEN "throws"
  ELSE IF user.role = "superadmin" \/ user.role = "admin" THEN "next"
  ELSE IF user.role # "center_admin" THEN "ACCESS_DENIED"
  ELSE IF ~user.permissions.defined THEN "NO_PERMISSIONS"
  ELSE IF module \notin user.permissions.mods THEN "MODULE_ACCESS_DENIED"
  ELSE IF ~ReadTrue(user.permissions, module, action) THEN "ACTION_DENIED"
  ELSE "next"

requireCenterAdminModuleAccess(user, module) ==
  requireCenterAdminPermission(user, module, "view")

\* ------------------------------------------------ super admin: createAdmin
CreateAdminInputs ==
  LET fresh == Len(users) + 1
      base == [email |-> <<fresh, FALSE>>, phone |-> fresh, permissions |-> PermAdmin,
               assignedBranch |-> NoBranch, role |-> "none"]
  IN {base, [base EXCEPT !.permissions = PermOrders, !.assignedBranch = "B1", !.role = "admin"],
      [base EXCEPT !.assignedBranch = "B1", !.role = "center_admin"]}
     \cup {[base EXCEPT !.email = c[1], !.phone = c[2]] : c \in ContactInputs}
     \cup {[base EXCEPT !.permissions = p] : p \in {Undefined, getDefaultPermissions, EmptyObject}}
     \cup {[base EXCEPT !.role = "staff"], [base EXCEPT !.role = "center_admin"]}

\* role "none": the field is not in the request body.  The route's validators
\* run first (role isIn admin, center_admin), then the handler's own checks.
createAdminCode(db, req) ==
  LET userRole == IF req.role = "none" THEN USER_ROLES.ADMIN ELSE req.role
  IN IF req.role \notin {"none", "admin", "center_admin"} THEN "VALIDATION_ERROR"
     ELSE IF userRole \notin {USER_ROLES.ADMIN, USER_ROLES.CENTER_ADMIN} THEN "INVALID_ROLE"
     ELSE IF userRole = USER_ROLES.CENTER_ADMIN /\ req.assignedBranch = NoBranch
       THEN "BRANCH_REQUIRED"
     ELSE IF findOneByEmail(db, toLowerCase(req.email)) THEN "DUPLICATE_EMAIL"
     ELSE IF findOneByPhone(db, req.phone) THEN "DUPLICATE_PHONE"
     ELSE IF ~req.permissions.defined \/ ~hasAtLeastOnePermission(req.permissions)
       THEN "INVALID_PERMISSIONS"
     ELSE "CREATED"

createAdminDoc(req) ==
  NewUser(toLowerCase(req.email), req.phone,
          IF req.role = "none" THEN USER_ROLES.ADMIN ELSE req.role,
          req.permissions, req.assignedBranch, SuperAdminId, "SuperAdmin")

createAdmin(req) ==
  LET code == createAdminCode(users, req)
  IN /\ Idle
     /\ Len(users) < MaxUsers
     /\ users' = IF code = "CREATED" THEN Append(users, createAdminDoc(req)) ELSE users
     /\ respond("createAdmin", SuperAdminId,
                IF code = "CREATED" THEN Len(users) + 1 ELSE 0, code, 0, "CREATED",
                AuditEntry(SuperAdminId, "superadmin",
                           IF createAdminDoc(req).role = USER_ROLES.CENTER_ADMIN
                           THEN "create_center_admin" ELSE "create_admin",
                           Len(users) + 1, Undefined, Undefined))
     /\ nops' = nops + 1
     /\ UNCHANGED <<inflight, principal, decision, registry>>

\* ------------------------------------- super admin: updateAdmin, updatePermissions
AdminRoles == {USER_ROLES.ADMIN, USER_ROLES.CENTER_ADMIN}

\* assignedBranch "undefined": the field is not in the request body
updateAdminCode(db, id, permissions) ==
  IF ~findOneByRole(db, id, AdminRoles) THEN "NOT_FOUND"
  ELSE IF db[id].role = USER_ROLES.ADMIN /\ permissions.defined
          /\ ~hasAtLeastOnePermission(permissions) THEN "INVALID_PERMISSIONS"
  ELSE "OK"

updateAdminDoc(admin, permissions, assignedBranch) ==
  [admin EXCEPT
     !.permissions = IF permissions.defined /\ admin.role = USER_ROLES.ADMIN
                     THEN permissions ELSE @,
     !.assignedBranch = IF assignedBranch # "undefined" THEN assignedBranch ELSE @]

updateAdmin(id, permissions, assignedBranch) ==
  LET code == updateAdminCode(users, id, permissions)
  IN /\ Idle
     /\ users' = IF code = "OK"
                 THEN [users EXCEPT ![id] = updateAdminDoc(@, permissions, assignedBranch)]
                 ELSE users
     /\ respond("updateAdmin", SuperAdminId, id, code, 0, "OK",
                AuditEntry(SuperAdminId, "superadmin", "update_admin", id,
                           users[id].permissions,
                           updateAdminDoc(users[id], permissions, assignedBranch).permissions))
     /\ nops' = nops + 1
     /\ UNCHANGED <<inflight, principal, decision, registry>>

\* the handler does not consult validationResult: its own checks decide
updatePermissionsCode(db, id, permissions) ==
  IF ~findOneByRole(db, id, AdminRoles) THEN "NOT_FOUND"
  ELSE IF ~permissions.defined \/ ~hasAtLeastOnePermission(permissions)
    THEN "INVALID_PERMISSIONS"
  ELSE "OK"

updatePermissions(id, permissions) ==
  LET code == updatePermissionsCode(users, id, permissions)
  IN /\ Idle
     /\ users' = IF code = "OK" THEN [users EXCEPT ![id].permissions = permissions] ELSE users
     /\ respond("updatePermissions", SuperAdminId, id, code, 0, "OK",
                AuditEntry(SuperAdminId, "superadmin",
                           IF users[id].role = USER_ROLES.CENTER_ADMIN
                           THEN "update_center_admin_permissions"
                           ELSE "update_admin_permissions",
                           id, users[id].permissions, permissions))
     /\ nops' = nops + 1
     /\ UNCHANGED <<inflight, principal, decision, registry>>

\* --------------------------- super admin: deactivateAdmin, reactivateAdmin
deactivateCode(db, id, roles) ==
  IF ~findOneByRole(db, id, roles) THEN "NOT_FOUND"
  ELSE IF ~db[id].isActive THEN "ALREADY_DEACTIVATED"
  ELSE "OK"

reactivateCode(db, id, roles) ==
  IF ~findOneByRole(db, id, roles) THEN "NOT_FOUND"
  ELSE IF db[id].isActive THEN "ALREADY_ACTIVE"
  ELSE "OK"

\* variant: the flag is written to the account and to its staffCreated
saveIsActive_withStaff(db, id, flag) ==
  [i \in 1..Len(db) |->
     IF i = id \/ i \in Range(db[id].staffCreated)
     THEN [db[i] EXCEPT !.isActive = flag] ELSE db[i]]

\* admin.isActive = false; await admin.save()
saveIsActive(db, id, flag) == [db EXCEPT ![id].isActive = flag]

\* variant: the cascade stops after the first entry of staffCreated
cascadeDeactivate_firstOnly(db, staffCreated) ==
  IF Len(staffCreated) = 0 THEN db ELSE updateManyInactive(db, <<staffCreated[1]>>)

\* the cascade: updateMany over the staffCreated array of the loaded document
cascadeDeactivate(db, staffCreated) == updateManyInactive(db, staffCreated)

deactivateAdmin(id) ==
  LET code == deactivateCode(users, id, AdminRoles)
  IN /\ Idle
     /\ users' = IF code = "OK"
                 THEN cascadeDeactivate(saveIsActive(users, id, FALSE), users[id].staffCreated)
                 ELSE users
     /\ respond("deactivateAdmin", SuperAdminId, id, code,
                IF code = "OK"
                THEN modifiedCount(saveIsActive(users, id, FALSE), users[id].staffCreated)
                ELSE 0,
                "OK",
                AuditEntry(SuperAdminId, "superadmin",
                           IF users[id].role = USER_ROLES.CENTER_ADMIN
                           THEN "deactivate_center_admin" ELSE "deactivate_admin",
                           id, Undefined, Undefined))
     /\ nops' = nops + 1
     /\ UNCHANGED <<inflight, principal, decision, registry>>

reactivateAdmin(id) ==
  LET code == reactivateCode(users, id, AdminRoles)
  IN /\ Idle
     /\ users' = IF code = "OK" THEN saveIsActive(users, id, TRUE) ELSE users
     /\ respond("reactivateAdmin", SuperAdminId, id, code, 0, "OK",
                AuditEntry(SuperAdminId, "superadmin",
                           IF users[id].role = USER_ROLES.CENTER_ADMIN
                           THEN "reactivate_center_admin" ELSE "reactivate_admin",
                           id, Undefined, Undefined))
     /\ nops' = nops + 1
     /\ UNCHANGED <<inflight, principal, decision, registry>>

\* ------------------------------------------------------ admin: createStaff
\* router.use(protect); router.use(restrictTo(ADMIN, CENTER_ADMIN))
adminStaffGuard(db, actor) ==
  IF protect(db, actor) # "next" THEN protect(db, actor)
  ELSE restrictTo({USER_ROLES.ADMIN, USER_ROLES.CENTER_ADMIN}, db[actor].role)

CreateStaffInputs ==
  LET fresh == Len(users) + 1
      base == [email |-> <<fresh, FALSE>>, phone |-> fresh, permissions |-> PermOrders,
               assignedBranch |-> NoBranch, role |-> "none"]
  IN {[base EXCEPT !.permissions = p] :
        p \in {Undefined, getDefaultPermissions, PermAdmin, PermOrders, PermFinancial}}
     \cup {[base EXCEPT !.email = c[1], !.phone = c[2], !.permissions = p] :
             c \in ContactInputs, p \in {PermOrders, PermFinancial}}
     \cup {[base EXCEPT !.assignedBranch = "B2", !.role = "admin"]}

createStaffCode(db, admin, req) ==
  IF findOneByEmail(db, toLowerCase(req.email)) THEN "DUPLICATE_EMAIL"
  ELSE IF findOneByPhone(db, req.phone) THEN "DUPLICATE_PHONE"
  ELSE IF req.permissions.defined
          /\ ~isPermissionSubset(admin.permissions, req.permissions).isValid
    THEN "INVALID_PERMISSION"
  ELSE "CREATED"

staffRole(req) == USER_ROLES.STAFF

\* variant: the branch is taken from the request body
staffBranch_fromBody(admin, req) == req.assignedBranch

staffBranch(admin, req) == admin.assignedBranch

createStaffDoc(admin, adminId, req) ==
  NewUser(toLowerCase(req.email), req.phone, staffRole(req),
          IF req.permissions.defined THEN req.permissions ELSE getDefaultPermissions,
          staffBranch(admin, req), adminId, "User")

\* User.findByIdAndUpdate(admin._id, { $push: { staffCreated: staff._id } })
pushStaffCreated(db, adminId, staffId) ==
  [db EXCEPT ![adminId].staffCreated = Append(@, staffId)]

createStaff(actor, req) ==
  LET guard == adminStaffGuard(users, actor)
      code == IF guard # "next" THEN guard ELSE createStaffCode(users, users[actor], req)
  IN /\ Idle
     /\ Len(users) < MaxUsers
     /\ users' = IF code = "CREATED"
                 THEN pushStaffCreated(Append(users, createStaffDoc(users[actor], actor, req)),
                                       actor, Len(users) + 1)
                 ELSE users
     /\ respond("createStaff", actor, IF code = "CREATED" THEN Len(users) + 1 ELSE 0,
                code, 0, "CREATED",
                AuditEntry(actor, "center_admin", "create_staff", Len(users) + 1,
                           Undefined, Undefined))
     /\ nops' = nops + 1
     /\ UNCHANGED <<inflight, principal, decision, registry>>

\* ---------------------- admin: updateStaff, deactivateStaff, reactivateStaff
\* admin.staffCreated?.map(s => s.toString()).includes(id)
createdByActor(admin, id) == id \in Range(admin.staffCreated)

\* variant: the new set is compared with the set the staff already holds
updateStaffCode_againstStored(db, admin, id, permissions) ==
  IF ~createdByActor(admin, id) THEN "FORBIDDEN"
  ELSE IF ~findOneByRole(db, id, {USER_ROLES.STAFF}) THEN "NOT_FOUND"
  ELSE IF permissions.defined /\ ~isPermissionSubset(db[id].permissions, permissions).isValid
    THEN "INVALID_PERMISSION"
  ELSE "OK"

updateStaffCode(db, admin, id, permissions) ==
  IF ~createdByActor(admin, id) THEN "FORBIDDEN"
  ELSE IF ~findOneByRole(db, id, {USER_ROLES.STAFF}) THEN "NOT_FOUND"
  ELSE IF permissions.defined /\ ~isPermissionSubset(admin.permissions, permissions).isValid
    THEN "INVALID_PERMISSION"
  ELSE "OK"

updateStaff(actor, id, permissions) ==
  LET guard == adminStaffGuard(users, actor)
      code == IF guard # "next" THEN guard ELSE updateStaffCode(users, users[actor], id, permissions)
  IN /\ Idle
     /\ users' = IF code = "OK" /\ permissions.defined
                 THEN [users EXCEPT ![id].permissions = permissions] ELSE users
     /\ respond("updateStaff", actor, id, code, 0, "OK",
                AuditEntry(actor, "center_admin", "update_staff", id,
                           users[id].permissions,
                           IF permissions.defined THEN permissions ELSE users[id].permissions))
     /\ nops' = nops + 1
     /\ UNCHANGED <<inflight, principal, decision, registry>>

staffStatusCode(db, admin, id, wanted) ==
  IF ~createdByActor(admin, id) THEN "FORBIDDEN"
  ELSE IF ~findOneByRole(db, id, {USER_ROLES.STAFF}) THEN "NOT_FOUND"
  ELSE IF db[id].isActive = wanted
    THEN (IF wanted THEN "ALREADY_ACTIVE" ELSE "ALREADY_DEACTIVATED")
  ELSE "OK"

deactivateStaff(actor, id) ==
  LET guard == adminStaffGuard(users, actor)
      code == IF guard # "next" THEN guard ELSE staffStatusCode(users, users[actor], id, FALSE)
  IN /\ Idle
     /\ users' = IF code = "OK" THEN saveIsActive(users, id, FALSE) ELSE users
     /\ respond("deactivateStaff", actor, id, code, 0, "OK",
                AuditEntry(actor, "center_admin", "deactivate_staff", id, Undefined, Undefined))
     /\ nops' = nops + 1
     /\ UNCHANGED <<inflight, principal, decision, registry>>

reactivateStaff(actor, id) ==
  LET guard == adminStaffGuard(users, actor)
      code == IF guard # "next" THEN guard ELSE staffStatusCode(users, users[actor], id, TRUE)
  IN /\ Idle
     /\ users' = IF code = "OK" THEN saveIsActive(users, id, TRUE) ELSE users
     /\ respond("reactivateStaff", actor, id, code, 0, "OK",
                AuditEntry(actor, "center_admin", "reactivate_staff", id, Undefined, Undefined))
     /\ nops' = nops + 1
     /\ UNCHANGED <<inflight, principal, decision, registry>>

\* ------------- /api/admin/center-admins: create, deactivate, reactivate
\* router.use(protect); checkPermission('users', action) on the route
centerAdminGuard(db, actor, action) ==
  IF protect(db, actor) # "next" THEN protect(db, actor)
  ELSE checkPermission(Principal(db[actor]), "users", action)

CreateCenterAdminInputs ==
  LET fresh == Len(users) + 1
      base == [email |-> <<fresh, FALSE>>, phone |-> fresh, permissions |-> Undefined,
               assignedBranch |-> "B1", role |-> "none"]
  IN {base, [base EXCEPT !.assignedBranch = NoBranch],
      [base EXCEPT !.role = "staff", !.permissions = PermOrders]}
     \cup {[base EXCEPT !.email = c[1], !.phone = c[2]] : c \in ContactInputs}

createCenterAdminCode(db, admin, req) ==
  IF ~ReadTrue(admin.permissions, "users", "create") THEN "FORBIDDEN"
  ELSE IF req.assignedBranch = NoBranch THEN "BRANCH_REQUIRED"
  ELSE IF findOneByEmail(db, toLowerCase(req.email)) THEN "DUPLICATE_EMAIL"
  ELSE IF findOneByPhone(db, req.phone) THEN "DUPLICATE_PHONE"
  ELSE "CREATED"

\* permissions is not set by the handler: the schema default {} applies
createCenterAdminDoc(adminId, req) ==
  NewUser(toLowerCase(req.email), req.phone, USER_ROLES.CENTER_ADMIN, EmptyObject,
          req.assignedBranch, adminId, "User")

createCenterAdmin(actor, req) ==
  LET guard == centerAdminGuard(users, actor, "create")
      code == IF guard # "next" THEN guard ELSE createCenterAdminCode(users, users[actor], req)
  IN /\ Idle
     /\ Len(users) < MaxUsers
     /\ users' = IF code = "CREATED" THEN Append(users, createCenterAdminDoc(actor, req))
                 ELSE users
     /\ respond("createCenterAdmin", actor,
                IF code = "CREATED" THEN Len(users) + 1 ELSE 0, code, 0, "CREATED",
                AuditEntry(actor, "admin", "create_center_admin", Len(users) + 1,
                           Undefined, Undefined))
     /\ nops' = nops + 1
     /\ UNCHANGED <<inflight, principal, decision, registry>>

deactivateCenterAdminCode(db, admin, id) ==
  IF ~ReadTrue(admin.permissions, "users", "delete") THEN "FORBIDDEN"
  ELSE deactivateCode(db, id, {USER_ROLES.CENTER_ADMIN})

deactivateCenterAdmin(actor, id) ==
  LET guard == centerAdminGuard(users, actor, "delete")
      code == IF guard # "next" THEN guard ELSE deactivateCenterAdminCode(users, users[actor], id)
  IN /\ Idle
     /\ users' = IF code = "OK"
                 THEN cascadeDeactivate(saveIsActive(users, id, FALSE), users[id].staffCreated)
                 ELSE users
     /\ respond("deactivateCenterAdmin", actor, id, code,
                IF code = "OK"
                THEN modifiedCount(saveIsActive(users, id, FALSE), users[id].staffCreated)
                ELSE 0,
                "OK",
                AuditEntry(actor, "admin", "deactivate_center_admin", id, Undefined, Undefined))
     /\ nops' = nops + 1
     /\ UNCHANGED <<inflight, principal, decision, registry>>

reactivateCenterAdminCode(db, admin, id) ==
  IF ~ReadTrue(admin.permissions, "users", "update") THEN "FORBIDDEN"
  ELSE reactivateCode(db, id, {USER_ROLES.CENTER_ADMIN})

reactivateCenterAdmin(actor, id) ==
  LET guard == centerAdminGuard(users, actor, "update")
      code == IF guard # "next" THEN guard ELSE reactivateCenterAdminCode(users, users[actor], id)
  IN /\ Idle
     /\ users' = IF code = "OK" THEN saveIsActive(users, id, TRUE) ELSE users
     /\ respond("reactivateCenterAdmin", actor, id, code, 0, "OK",
                AuditEntry(actor, "admin", "reactivate_center_admin", id, Undefined, Undefined))
     /\ nops' = nops + 1
     /\ UNCHANGED <<inflight, principal, decision, registry>>

\* ------------------- /api/center-admin/users: updateUserStatus, updateUserRole
\* User.findByIdAndUpdate(userId, { isActive })
updateUserStatus(userId, isActive) ==
  /\ Idle
  /\ users' = [users EXCEPT ![userId].isActive = isActive]
  /\ last' = Response("updateUserStatus", LegacyCenterAdminId, userId, "OK", 0)
  /\ nops' = nops + 1
  /\ UNCHANGED <<inflight, principal, decision, audit, registry>>

validRoles == {"customer", "branch_manager", "staff", "admin"}

updateUserRole(userId, role) ==
  /\ Idle
  /\ users' = IF role \in validRoles THEN [users EXCEPT ![userId].role = role] ELSE users
  /\ last' = Response("updateUserRole", LegacyCenterAdminId, userId,
                      IF role \in validRoles THEN "OK" ELSE "INVALID_ROLE", 0)
  /\ nops' = nops + 1
  /\ UNCHANGED <<inflight, principal, decision, audit, registry>>

\* candidate: the second argument of an isPermissionSubset evaluation
NoDecision ==
  [check |-> "none", module |-> "none", action |-> "none", permissions |-> <<>>,
   code |-> "none", candidate |-> Undefined, missing |-> <<>>, calls |-> 0]

Decision(check, module, action, permissions, code) ==
  [check |-> check, module |-> module, action |-> action, permissions |-> permissions,
   code |-> code, candidate |-> Undefined, missing |-> <<>>, calls |-> 1]

\* the response has been sent: the request is over
ResponseSent ==
  /\ last.op # "none"
  /\ last' = NoResponse
  /\ audit' = <<>>
  /\ UNCHANGED <<users, nops, inflight, principal, decision, registry>>

Init ==
  /\ users = <<>>
  /\ last = NoResponse
  /\ nops = 0
  /\ inflight = {}
  /\ principal = NoPrincipal
  /\ decision = NoDecision
  /\ audit = <<>>
  /\ registry = PRESET_ROLES

UpdatePermInputs == {Undefined, getDefaultPermissions, PermOrders, PermLegacy}

\* the (permissions, assignedBranch) pairs an updateAdmin request carries
UpdateAdminInputs ==
  {<<Undefined, "B1">>, <<Undefined, NoBranch>>, <<PermOrders, "undefined">>,
   <<getDefaultPermissions, "undefined">>}

UpdateStaffInputs == {Undefined, getDefaultPermissions, PermOrders, PermAdmin}

Next ==
  \/ \E req \in CreateAdminInputs : createAdmin(req)
  \/ \E id \in Ids, body \in UpdateAdminInputs : updateAdmin(id, body[1], body[2])
  \/ \E id \in Ids, permissions \in UpdatePermInputs : updatePermissions(id, permissions)
  \/ \E id \in Ids : deactivateAdmin(id)
  \/ \E id \in Ids : reactivateAdmin(id)
  \/ \E actor \in Ids, req \in CreateStaffInputs : createStaff(actor, req)
  \/ \E actor \in Ids, id \in Ids, permissions \in UpdateStaffInputs :
       updateStaff(actor, id, permissions)
  \/ \E actor \in Ids, id \in Ids : deactivateStaff(actor, id)
  \/ \E actor \in Ids, id \in Ids : reactivateStaff(actor, id)
  \/ \E actor \in Ids, req \in CreateCenterAdminInputs : createCenterAdmin(actor, req)
  \/ \E actor \in Ids, id \in Ids : deactivateCenterAdmin(actor, id)
  \/ \E actor \in Ids, id \in Ids : reactivateCenterAdmin(actor, id)
  \/ \E userId \in Ids, isActive \in BOOLEAN : updateUserStatus(userId, isActive)
  \/ \E userId \in Ids, role \in {"admin", "center_admin"} : updateUserRole(userId, role)
  \/ ResponseSent

\* every handler runs from its first line to its response without interleaving
Spec == Init /\ [][Next]_vars

\* ------------------------------------------ interleaved: cascade in two writes
\* deactivateAdmin up to `admin.isActive = false`: the document is loaded with
\* findOne and its isActive flag is tested on that copy
deactivateAdminFind(id) ==
  LET code == deactivateCode(users, id, AdminRoles)
  IN /\ Idle
     /\ inflight' = IF code = "OK"
                    THEN inflight \cup {[op |-> "deactivateAdmin", step |-> "save",
                                         target |-> id, rid |-> nops + 1,
                                         staffCreated |-> users[id].staffCreated]}
                    ELSE inflight
     /\ last' = IF code = "OK" THEN last
                ELSE Response("deactivateAdmin", SuperAdminId, id, code, 0)
     /\ nops' = nops + 1
     /\ UNCHANGED <<users, principal, decision, audit, registry>>

\* `await admin.save()`: writes isActive = false whatever the stored flag is now
deactivateAdminSave(r) ==
  /\ last.op = "none"
  /\ r.op = "deactivateAdmin"
  /\ r.step = "save"
  /\ users' = saveIsActive(users, r.target, FALSE)
  /\ inflight' = (inflight \ {r}) \cup {[r EXCEPT !.step = "cascade"]}
  /\ UNCHANGED <<last, nops, principal, decision, audit, registry>>

\* deactivateAdmin from `await User.updateMany(...)` to the response
deactivateAdminCascade(r) ==
  /\ last.op = "none"
  /\ r.op = "deactivateAdmin"
  /\ r.step = "cascade"
  /\ users' = cascadeDeactivate(users, r.staffCreated)
  /\ inflight' = inflight \ {r}
  /\ respond("deactivateAdmin", SuperAdminId, r.target, "OK",
             modifiedCount(users, r.staffCreated), "OK",
             AuditEntry(SuperAdminId, "superadmin",
                        IF users[r.target].role = USER_ROLES.CENTER_ADMIN
                        THEN "deactivate_center_admin" ELSE "deactivate_admin",
                        r.target, Undefined, Undefined))
  /\ UNCHANGED <<nops, principal, decision, registry>>

\* getAdminById: the admin with staffCreated populated, and activeStaffCount
activeStaffCount(db, id) ==
  Cardinality({s \in Range(db[id].staffCreated) : db[s].isActive})

getAdminById(id) ==
  /\ Idle
  /\ last' = Response("getAdminById", SuperAdminId, id,
                      IF ~findOneByRole(users, id, AdminRoles) THEN "NOT_FOUND"
                      ELSE IF users[id].isActive THEN "OK_ACTIVE" ELSE "OK_INACTIVE",
                      IF findOneByRole(users, id, AdminRoles)
                      THEN activeStaffCount(users, id) ELSE 0)
  /\ nops' = nops + 1
  /\ UNCHANGED <<users, inflight, principal, decision, audit, registry>>

\* ------------------------------- interleaved: createStaff between its awaits
\* the requests the interleaved createStaff is tried with
CreateStaffConcInputs ==
  LET fresh == Len(users) + 1
      base == [email |-> <<fresh, FALSE>>, phone |-> fresh, permissions |-> PermOrders,
               assignedBranch |-> NoBranch, role |-> "none"]
  IN {[base EXCEPT !.permissions = p] : p \in {PermOrders, PermFinancial}}
     \cup {[base EXCEPT !.email = <<fresh, TRUE>>, !.phone = fresh + 1]}

\* createStaff from protect to `new User({...})`: req.user is the document
\* that User.findById returned, kept for the rest of the request; the
\* duplicate lookups read the collection, the subset check reads req.user
createStaffChecks(actor, req) ==
  LET guard == adminStaffGuard(users, actor)
      code == IF guard # "next" THEN guard ELSE createStaffCode(users, users[actor], req)
  IN /\ Idle
     /\ Len(users) < MaxUsers
     /\ inflight' = IF code = "CREATED"
                    THEN inflight \cup {[op |-> "createStaff", step |-> "save", actor |-> actor,
                                         admin |-> users[actor], req |-> req, target |-> 0,
                                         rid |-> nops + 1]}
                    ELSE inflight
     /\ last' = IF code = "CREATED" THEN last ELSE Response("createStaff", actor, 0, code, 0)
     /\ nops' = nops + 1
     /\ UNCHANGED <<users, principal, decision, audit, registry>>

\* email: { unique: true }, phone: { unique: true }: the insert is refused
\* (E11000) when another document holds either value
uniqueIndexViolated(db, doc) == findOneByEmail(db, doc.email) \/ findOneByPhone(db, doc.phone)

\* `await staff.save()`: a refused insert throws into the handler's catch
\* block, which answers 500 SERVER_ERROR
createStaffSave(r) ==
  LET doc == createStaffDoc(r.admin, r.actor, r.req)
      threw == uniqueIndexViolated(users, doc)
  IN /\ last.op = "none"
     /\ r.op = "createStaff"
     /\ r.step = "save"
     /\ Len(users) < MaxUsers
     /\ users' = IF threw THEN users ELSE Append(users, doc)
     /\ inflight' = IF threw THEN inflight \ {r}
                    ELSE (inflight \ {r})
                           \cup {[r EXCEPT !.step = "push", !.target = Len(users) + 1]}
     /\ last' = IF threw THEN Response("createStaff", r.actor, 0, "SERVER_ERROR", 0) ELSE last
     /\ UNCHANGED <<nops, principal, decision, audit, registry>>

\* createStaff from the $push into the admin's staffCreated to the response
createStaffPush(r) ==
  /\ last.op = "none"
  /\ r.op = "createStaff"
  /\ r.step = "push"
  /\ users' = pushStaffCreated(users, r.actor, r.target)
  /\ inflight' = inflight \ {r}
  /\ respond("createStaff", r.actor, r.target, "CREATED", 0, "CREATED",
             AuditEntry(r.actor, "center_admin", "create_staff", r.target,
                        Undefined, Undefined))
  /\ UNCHANGED <<nops, principal, decision, registry>>

\* the $push is refused by the store (connection lost, write error): the
\* rejection reaches the catch block, which answers 500 SERVER_ERROR; the
\* Staff document saved before it stays
createStaffPushFails(r) ==
  /\ last.op = "none"
  /\ r.op = "createStaff"
  /\ r.step = "push"
  /\ inflight' = inflight \ {r}
  /\ last' = Response("createStaff", r.actor, 0, "SERVER_ERROR", 0)
  /\ UNCHANGED <<users, nops, principal, decision, audit, registry>>

\* ------------------------------- interleaved: updateStaff between its awaits
UpdateStaffConcInputs == {PermOrders, PermAdmin}

\* protect and restrictTo for updateStaff: req.user is loaded here
updateStaffProtect(actor, id, permissions) ==
  LET guard == adminStaffGuard(users, actor)
  IN /\ Idle
     /\ inflight' = IF guard = "next"
                    THEN inflight \cup {[op |-> "updateStaff", step |-> "checks", actor |-> actor,
                                         admin |-> users[actor], req |-> permissions,
                                         target |-> id, rid |-> nops + 1]}
                    ELSE inflight
     /\ last' = IF guard = "next" THEN last ELSE Response("updateStaff", actor, id, guard, 0)
     /\ nops' = nops + 1
     /\ UNCHANGED <<users, principal, decision, audit, registry>>

\* updateStaff from the ownership check to the response: the staff document
\* is read from the collection, the subset check reads req.user
updateStaffSave(r) ==
  LET code == updateStaffCode(users, r.admin, r.target, r.req)
  IN /\ last.op = "none"
     /\ r.op = "updateStaff"
     /\ users' = IF code = "OK" /\ r.req.defined
                 THEN [users EXCEPT ![r.target].permissions = r.req] ELSE users
     /\ inflight' = inflight \ {r}
     /\ respond("updateStaff", r.actor, r.target, code, 0, "OK",
                AuditEntry(r.actor, "center_admin", "update_staff", r.target,
                           users[r.target].permissions,
                           IF r.req.defined THEN r.req ELSE users[r.target].permissions))
     /\ UNCHANGED <<nops, principal, decision, registry>>

UpdatePermConcInputs == {PermOrders, PermFinancial}

\* the createAdmin requests the interleaved handlers are tried with: an admin,
\* a center admin, and an admin whose e-mail collides with the next account's
CreateAdminConcInputs ==
  {req \in CreateAdminInputs :
     /\ req.permissions \in {PermAdmin, PermOrders}
     /\ req.role \in {"none", "admin", "center_admin"}
     /\ req.assignedBranch = "B1" \/ req.email = <<Len(users) + 1, TRUE>>}

NextConc ==
  \/ \E req \in CreateAdminConcInputs : createAdmin(req)
  \/ \E id \in Ids, permissions \in UpdatePermConcInputs : updatePermissions(id, permissions)
  \/ \E actor \in Ids, req \in CreateStaffConcInputs : createStaffChecks(actor, req)
  \/ \E r \in inflight : createStaffSave(r)
  \/ \E r \in inflight : createStaffPush(r)
  \/ \E r \in inflight : createStaffPushFails(r)
  \/ \E actor \in Ids, id \in Ids, permissions \in UpdateStaffConcInputs :
       updateStaffProtect(actor, id, permissions)
  \/ \E r \in inflight : updateStaffSave(r)
  \/ \E actor \in Ids, id \in Ids : reactivateStaff(actor, id)
  \/ \E id \in Ids : reactivateAdmin(id)
  \/ \E id \in Ids : deactivateAdminFind(id)
  \/ \E r \in inflight : deactivateAdminSave(r)
  \/ \E r \in inflight : deactivateAdminCascade(r)
  \/ \E id \in Ids : getAdminById(id)
  \/ ResponseSent

\* requests interleave at their awaits
SpecConc == Init /\ [][NextConc]_vars

\* ------------------------------------------------ the permission checks alone
AuthPermInputs ==
  {Undefined, EmptyObject, getDefaultPermissions, getFullAccessPermissions,
   PermAdmin, PermOrders, PermFinancial, PermLegacy, PermOutside}
    \cup {PermObj({TaxonomySeq[i][1]}, {TaxonomySeq[i]}) : i \in 1..Len(TaxonomySeq)}

PrincipalInputs ==
  {NoPrincipal}
    \cup {[present |-> TRUE, role |-> r, permissions |-> p] :
            r \in {"superadmin", "admin", "center_admin", "staff", "customer", "undefined"},
            p \in AuthPermInputs}

\* (module, action) targets: the taxonomy, an action of another module, an unknown module
TargetInputs == Range(TaxonomySeq) \cup {<<"customers", "refund">>, <<"inventory", "view">>}

TargetListInputs ==
  {<<>>, <<<<"orders", "view">>>>, <<<<"orders", "view">>, <<"financial", "view">>>>,
   <<<<"users", "create">>, <<"orders", "create">>, <<"settings", "delete">>>>}

InitAuth ==
  /\ users = <<>>
  /\ last = NoResponse
  /\ nops = 0
  /\ inflight = {}
  /\ principal \in PrincipalInputs
  /\ decision = NoDecision
  /\ audit = <<>>
  /\ registry = PRESET_ROLES

\* variant: an allowed check uses the permission up
principalAfterCheck_consuming(user, module, action) ==
  [user EXCEPT !.permissions.t = @ \ {<<module, action>>}]

\* the principal object after a check of (module, action): the checks read
\* user.role and user.permissions?.[module]?.[action] and assign nothing
principalAfterCheck(user, module, action) == user

evalCheckPermission(module, action) ==
  /\ decision.check = "none"
  /\ decision' = Decision("checkPermission", module, action, <<>>,
                          checkPermission(principal, module, action))
  /\ principal' = principalAfterCheck(principal, module, action)
  /\ UNCHANGED <<users, last, nops, inflight, audit, registry>>

\* the same check on the same request again (a route may chain it)
evalCheckPermissionAgain ==
  /\ decision.check = "checkPermission"
  /\ decision.calls < MaxCalls
  /\ decision' = [Decision("checkPermission", decision.module, decision.action, <<>>,
                           checkPermission(principal, decision.module, decision.action))
                    EXCEPT !.calls = decision.calls + 1]
  /\ principal' = principalAfterCheck(principal, decision.module, decision.action)
  /\ UNCHANGED <<users, last, nops, inflight, audit, registry>>

evalCheckModuleAccess(module) ==
  /\ decision.check = "none"
  /\ decision' = Decision("checkModuleAccess", module, "none", <<>>,
                          checkModuleAccess(principal, module))
  /\ UNCHANGED <<users, last, nops, inflight, principal, audit, registry>>

evalCheckPermissions(permissions) ==
  /\ decision.check = "none"
  /\ decision' = [Decision("checkPermissions", "none", "none", permissions,
                           checkPermissions(principal, permissions))
                    EXCEPT !.missing = checkPermissionsDetails(principal, permissions)]
  /\ UNCHANGED <<users, last, nops, inflight, principal, audit, registry>>

evalCheckAnyPermission(permissions) ==
  /\ decision.check = "none"
  /\ decision' = Decision("checkAnyPermission", "none", "none", permissions,
                          checkAnyPermission(principal, permissions))
  /\ UNCHANGED <<users, last, nops, inflight, principal, audit, registry>>

evalHasPermission(module, action) ==
  /\ decision.check = "none"
  /\ decision' = Decision("hasPermission", module, action, <<>>,
                          hasPermission(principal, module, action))
  /\ principal' = principalAfterCheck(principal, module, action)
  /\ UNCHANGED <<users, last, nops, inflight, audit, registry>>

\* secondCheck = hasPermission(user, module, action) after firstCheck
evalHasPermissionAgain ==
  /\ decision.check = "hasPermission"
  /\ decision.calls < MaxCalls
  /\ decision' = [Decision("hasPermission", decision.module, decision.action, <<>>,
                           hasPermission(principal, decision.module, decision.action))
                    EXCEPT !.calls = decision.calls + 1]
  /\ principal' = principalAfterCheck(principal, decision.module, decision.action)
  /\ UNCHANGED <<users, last, nops, inflight, audit, registry>>

\* isPermissionSubset(parent, candidate) with the principal's set as parent
evalIsPermissionSubset(candidate) ==
  LET result == isPermissionSubset(principal.permissions, candidate)
  IN /\ decision.check = "none"
     /\ principal.present
     /\ principal.permissions.defined
     /\ decision' = [Decision("isPermissionSubset", "none", "none", result.invalidPermissions,
                               IF result.isValid THEN "valid" ELSE "invalid")
                        EXCEPT !.candidate = candidate]
     /\ UNCHANGED <<users, last, nops, inflight, principal, audit, registry>>

\* user.hasPermission(module, action) on the principal's document
evalUserHasPermission(module, action) ==
  /\ decision.check = "none"
  /\ principal.present
  /\ decision' = Decision("userHasPermission", module, action, <<>>,
                          userHasPermission(principal, module, action))
  /\ UNCHANGED <<users, last, nops, inflight, principal, audit, registry>>

\* user.hasModuleAccess(module) on the principal's document
evalHasModuleAccess(module) ==
  /\ decision.check = "none"
  /\ principal.present
  /\ decision' = Decision("hasModuleAccess", module, "none", <<>>,
                          hasModuleAccess(principal, module))
  /\ UNCHANGED <<users, last, nops, inflight, principal, audit, registry>>

evalRequireCenterAdminPermission(module, action) ==
  /\ decision.check = "none"
  /\ decision' = Decision("requireCenterAdminPermission", module, action, <<>>,
                          requireCenterAdminPermission(principal, module, action))
  /\ UNCHANGED <<users, last, nops, inflight, principal, audit, registry>>

evalRequireCenterAdminModuleAccess(module) ==
  /\ decision.check = "none"
  /\ decision' = Decision("requireCenterAdminModuleAccess", module, "none", <<>>,
                          requireCenterAdminModuleAccess(principal, module))
  /\ UNCHANGED <<users, last, nops, inflight, principal, audit, registry>>

\* the middleware has called next() or answered: the request is over
decisionReturned ==
  /\ decision.check # "none"
  /\ decision' = NoDecision
  /\ UNCHANGED <<users, last, nops, inflight, principal, audit, registry>>

NextAuth ==
  \/ \E target \in TargetInputs : evalCheckPermission(target[1], target[2])
  \/ \E target \in TargetInputs : evalCheckModuleAccess(target[1])
  \/ \E permissions \in TargetListInputs : evalCheckPermissions(permissions)
  \/ \E permissions \in TargetListInputs : evalCheckAnyPermission(permissions)
  \/ \E target \in TargetInputs : evalHasPermission(target[1], target[2])
  \/ evalCheckPermissionAgain
  \/ evalHasPermissionAgain
  \/ \E candidate \in AuthPermInputs \ {Undefined} : evalIsPermissionSubset(candidate)
  \/ \E target \in TargetInputs : evalUserHasPermission(target[1], target[2])
  \/ \E target \in TargetInputs : evalHasModuleAccess(target[1])
  \/ \E target \in TargetInputs : evalRequireCenterAdminPermission(target[1], target[2])
  \/ \E target \in TargetInputs : evalRequireCenterAdminModuleAccess(target[1])
  \/ decisionReturned

SpecAuth == InitAuth /\ [][NextAuth]_vars

\* ------------------------------------------------ the preset registry in use
PresetKeys == {"viewer", "manager", "financeAdmin", "branchManager"}

\* variant: the listing strips the tables from the registry's own entries
registryAfterListing_inPlace(reg) ==
  [key \in DOMAIN reg |-> [reg[key] EXCEPT !.permissions = getDefaultPermissions]]

\* the registry after getPresetRoles: both map callbacks build new objects
\* ({ key, name, description } and { ...preset, permissions }) and assign
\* nothing to PRESET_ROLES or to its entries
registryAfterListing(reg) == reg

\* presetsWithPermissions: the listing with each preset's table attached
presetsWithPermissions(reg) ==
  [key \in DOMAIN reg |->
     [key |-> key, name |-> getAllPresetRoles(reg)[key].name,
      description |-> getAllPresetRoles(reg)[key].description,
      permissions |-> reg[key].permissions]]

\* GET /preset-roles
getPresetRoles ==
  /\ Idle
  /\ last' = Response("getPresetRoles", SuperAdminId, 0, "OK",
                      Cardinality(DOMAIN presetsWithPermissions(registry)))
  /\ registry' = registryAfterListing(registry)
  /\ nops' = nops + 1
  /\ audit' = <<>>
  /\ UNCHANGED <<users, inflight, principal, decision>>

\* a caller looks a preset up by name and keeps what it got
lookupPresetRole(presetName) ==
  LET preset == getPresetRole(registry, presetName)
  IN /\ Idle
     /\ last' = Response("getPresetRole", SuperAdminId, 0,
                         IF preset = NullPreset THEN "null" ELSE "OK", 0)
     /\ decision' = [Decision("getPresetRole", presetName, "none", <<>>,
                               IF preset = NullPreset THEN "null" ELSE "OK")
                        EXCEPT !.candidate = preset.permissions]
     /\ nops' = nops + 1
     /\ audit' = <<>>
     /\ UNCHANGED <<users, inflight, principal, registry>>

\* createAdmin requests whose permissions are a preset's table
CreatePresetAdminInputs ==
  {[email |-> <<Len(users) + 1, FALSE>>, phone |-> Len(users) + 1,
    permissions |-> getPresetRole(registry, key).permissions,
    assignedBranch |-> NoBranch, role |-> "none"] : key \in PresetKeys}

\* updatePermissions requests whose permissions are a preset's table
UpdatePresetInputs == {getPresetRole(registry, key).permissions : key \in PresetKeys}

NextPreset ==
  \/ getPresetRoles
  \/ \E presetName \in PresetKeys \cup {"invalidPreset"} : lookupPresetRole(presetName)
  \/ \E req \in CreatePresetAdminInputs : createAdmin(req)
  \/ \E id \in Ids, permissions \in UpdatePresetInputs : updatePermissions(id, permissions)
  \/ ResponseSent

\* preset lookups and listings among creations and updates that use presets
SpecPreset == Init /\ [][NextPreset]_vars

\* -------------------------------------------------------------- properties
\* ====================================================================
\* Properties
\* ====================================================================
\* the requested set holds a taxonomy pair true that the actor's set does not grant
exceeds(actorPermissions, requested) ==
  \E i \in 1..Len(TaxonomySeq) :
    /\ ReadTrue(requested, TaxonomySeq[i][1], TaxonomySeq[i][2])
    /\ ~ReadTrue(actorPermissions, TaxonomySeq[i][1], TaxonomySeq[i][2])

C7_AdminTierCreatesStaffOnly ==
  (/\ last.op \in {"createStaff", "createCenterAdmin"}
   /\ last.code = "CREATED"
   /\ users[last.actor].role \in AdminRoles)
    => users[last.target].role = USER_ROLES.STAFF

\* C8 as stated: every stored Admin, CenterAdmin and Staff account has at
\* least one (module, action) pair true in its Permission Set.
C8_NonEmptyPermissionSets ==
  \A i \in Ids :
    users[i].role \in {USER_ROLES.ADMIN, USER_ROLES.CENTER_ADMIN, USER_ROLES.STAFF}
      => users[i].permissions.t # {}

\* C9: the branch of a Staff account created by createStaff is the creating
\* Admin's branch at creation time, whatever branch the payload carries.
C9_StaffBranchIsAdminBranch ==
  (last.op = "createStaff" /\ last.code = "CREATED")
    => users[last.target].assignedBranch = users[last.actor].assignedBranch

C9_Witness ==
  /\ last.op = "createStaff"
  /\ last.code = "CREATED"
  /\ users[last.actor].assignedBranch = "B1"

\* C10: Reactivate of an Admin/CenterAdmin changes the target's active flag
\* only: every account of its created-set keeps the flag it had.
C10_ReactivateTouchesOnlyTarget ==
  [][(/\ last.op = "none"
      /\ last'.op \in {"reactivateAdmin", "reactivateCenterAdmin"}
      /\ last'.code = "OK")
       => /\ users' = [users EXCEPT ![last'.target].isActive = TRUE]
          /\ \A s \in Range(users[last'.target].staffCreated) :
               users'[s].isActive = users[s].isActive]_vars

\* a Staff deactivated by the cascade is still inactive after the reactivation
C10_Witness ==
  /\ last.op = "reactivateAdmin"
  /\ last.code = "OK"
  /\ users[last.target].isActive
  /\ \E s \in Range(users[last.target].staffCreated) : ~users[s].isActive

\* C6 as stated: no reader observes the deactivated parent inactive while a
\* Staff of its created-set is still active because the cascade has not
\* reached it.
C6_CascadeAtomicForReaders ==
  ~(/\ last.op = "getAdminById"
    /\ last.code = "OK_INACTIVE"
    /\ last.count > 0
    /\ \E r \in inflight : r.op = "deactivateAdmin" /\ r.target = last.target)

\* C3: a principal whose role tag is superadmin is allowed by checkPermission,
\* checkModuleAccess, checkPermissions, checkAnyPermission and hasPermission
\* for every target, whatever its stored permission set.
C3_SuperAdminBypass ==
  (/\ principal.present
   /\ principal.role = "superadmin"
   /\ decision.check \in {"checkPermission", "checkModuleAccess", "checkPermissions",
                           "checkAnyPermission", "hasPermission"})
    => decision.code = "next"

C3_Witness ==
  /\ principal.present
  /\ principal.role = "superadmin"
  /\ principal.permissions = getDefaultPermissions
  /\ decision = Decision("checkPermission", "settings", "delete", <<>>, "next")

\* C4 as stated: for every principal that is not a SuperAdmin and every
\* taxonomy (module, action), the check allows exactly when the stored set
\* holds exactly true for the pair; a missing object, module or action denies
\* without an error.
C4_AllowIffStoredTrue ==
  (/\ principal.present
   /\ principal.role # "superadmin"
   /\ decision.check \in {"checkPermission", "hasPermission"}
   /\ <<decision.module, decision.action>> \in Range(TaxonomySeq))
    => /\ decision.code \in {"next", "PERMISSION_DENIED", "false"}
       /\ (decision.code = "next"
             <=> ReadTrue(principal.permissions, decision.module, decision.action))

\* C12 as stated: checkPermission decides in a fixed order - an absent principal
\* gets UNAUTHORIZED; otherwise a SuperAdmin is allowed; otherwise a target
\* outside the taxonomy gets INVALID_MODULE or INVALID_ACTION whatever the
\* stored set holds for it; only then the stored permission decides.
C12_FixedDecisionOrder ==
  decision.check = "checkPermission"
    => decision.code =
         IF ~principal.present THEN "UNAUTHORIZED"
         ELSE IF principal.role = "superadmin" THEN "next"
         ELSE IF decision.module \notin Range(MODULES) THEN "INVALID_MODULE"
         ELSE IF <<decision.module, decision.action>> \notin Range(TaxonomySeq)
           THEN "INVALID_ACTION"
         ELSE IF ReadTrue(principal.permissions, decision.module, decision.action) THEN "next"
         ELSE "PERMISSION_DENIED"

\* the taxonomy pairs true in candidate and not true in parent
violations(parent, candidate) ==
  {p \in Range(TaxonomySeq) :
     ReadTrue(candidate, p[1], p[2]) /\ ~ReadTrue(parent, p[1], p[2])}

\* C13: isPermissionSubset(parent, candidate) is valid exactly when no taxonomy
\* pair is true in candidate and not true in parent, and its list holds each
\* such pair once, as "module.action", and nothing else.
C13_SubsetValidatorExact ==
  decision.check = "isPermissionSubset"
    => LET v == violations(principal.permissions, decision.candidate)
       IN /\ (decision.code = "valid" <=> v = {})
          /\ Range(decision.permissions) = {dotted(p) : p \in v}
          /\ Len(decision.permissions) = Cardinality(v)

\* one true pair more than the parent grants: exactly that pair is listed
C13_Witness ==
  /\ decision.check = "isPermissionSubset"
  /\ principal.permissions = PermOrders
  /\ decision.candidate = PermFinancial
  /\ decision.code = "invalid"
  /\ decision.permissions = <<"financial.view">>

\* responses of a request refused before its handler looks at the target's status
refusals ==
  {"UNAUTHENTICATED", "ACCESS_DENIED", "PERMISSION_DENIED", "FORBIDDEN", "NOT_FOUND"}

\* C11 as stated: an operation that deactivates an already-inactive account
\* fails with ALREADY_DEACTIVATED, one that reactivates an already-active
\* account fails with ALREADY_ACTIVE, and no active flag changes.
C11_SameStatusRejected ==
  [][/\ (/\ last.op = "none"
         /\ last'.op \in {"deactivateAdmin", "deactivateCenterAdmin", "deactivateStaff"}
         /\ last'.code \notin refusals
         /\ ~users[last'.target].isActive)
          => (last'.code = "ALREADY_DEACTIVATED" /\ users' = users)
     /\ (/\ last.op = "none"
         /\ last'.op \in {"reactivateAdmin", "reactivateCenterAdmin", "reactivateStaff"}
         /\ last'.code \notin refusals
         /\ users[last'.target].isActive)
          => (last'.code = "ALREADY_ACTIVE" /\ users' = users)
     /\ \A isActive \in BOOLEAN :
          (/\ last.op = "none"
           /\ last'.op = "updateUserStatus"
           /\ updateUserStatus(last'.target, isActive)
           /\ users[last'.target].isActive = isActive)
            => /\ last'.code = IF isActive THEN "ALREADY_ACTIVE" ELSE "ALREADY_DEACTIVATED"
               /\ users' = users]_vars

\* C14 as stated: an update, deactivate or reactivate by an Admin-tier actor
\* succeeds only on a target that actor created.
C14_AdminTierActsOnOwnAccounts ==
  (/\ last.op \in {"updateStaff", "deactivateStaff", "reactivateStaff",
                   "deactivateCenterAdmin", "reactivateCenterAdmin"}
   /\ last.code = "OK"
   /\ users[last.actor].role \in AdminRoles)
    => \/ createdByActor(users[last.actor], last.target)
       \/ (/\ users[last.target].createdBy = last.actor
           /\ users[last.target].createdByModel = "User")

\* C16 as stated: a permission update that returns success (updateAdmin with
\* permissions, updatePermissions, updateStaff with permissions) leaves the
\* target's stored set equal to the supplied set, whatever the target's kind.
C16_UpdateStoresSuppliedSet ==
  [][/\ \A body \in UpdateAdminInputs :
          (/\ last'.op = "updateAdmin"
           /\ updateAdmin(last'.target, body[1], body[2])
           /\ body[1].defined
           /\ last'.code = "OK")
            => users'[last'.target].permissions = body[1]
     /\ \A permissions \in UpdatePermInputs :
          (/\ last'.op = "updatePermissions"
           /\ updatePermissions(last'.target, permissions)
           /\ last'.code = "OK")
            => users'[last'.target].permissions = permissions
     /\ \A permissions \in UpdateStaffInputs :
          (/\ last'.op = "updateStaff"
           /\ updateStaff(last'.actor, last'.target, permissions)
           /\ permissions.defined
           /\ last'.code = "OK")
            => users'[last'.target].permissions = permissions]_vars

\* the answers that report a persisted mutation
successes == {"OK", "CREATED"}

\* the handlers that update a stored permission set
permissionUpdates == {"updateAdmin", "updatePermissions", "updateStaff"}

\* C18: every successful account creation, permission update, deactivation
\* and reactivation emits one audit record naming the actor and the target,
\* and for a permission update its before and after snapshots are the
\* target's stored set right before and right after the update
C18_MutationsAudited ==
  [][(/\ last.op = "none"
      /\ last'.op \in {"createAdmin", "createStaff", "createCenterAdmin",
                        "deactivateAdmin", "reactivateAdmin",
                        "deactivateStaff", "reactivateStaff",
                        "deactivateCenterAdmin", "reactivateCenterAdmin",
                        "updateUserStatus"} \cup permissionUpdates
      /\ last'.code \in successes
      /\ users' # users)
       => /\ Len(audit') = 1
          /\ audit'[1].userId = last'.actor
          /\ audit'[1].resourceId = last'.target
          /\ last'.op \in permissionUpdates
               => /\ audit'[1].before = users[last'.target].permissions
                  /\ audit'[1].after = users'[last'.target].permissions]_vars

uniqueContacts(db) ==
  \A i, j \in 1..Len(db) : i # j => db[i].email # db[j].email /\ db[i].phone # db[j].phone

\* the request's e-mail or phone is held by an account of the collection
heldByAnother(db, req) ==
  findOneByEmail(db, toLowerCase(req.email)) \/ findOneByPhone(db, req.phone)

\* C17: no two accounts ever share an e-mail or a phone, and a creation
\* request whose e-mail or phone another account holds when the request is
\* answered is rejected with DUPLICATE_EMAIL or DUPLICATE_PHONE and persists
\* nothing, also when colliding creations interleave
C17_DuplicatesRejected ==
  [][/\ uniqueContacts(users')
     /\ \A r \in inflight \ inflight' :
          (/\ r.op = "createStaff"
           /\ r.step = "save"
           /\ last'.op = "createStaff"
           /\ heldByAnother(users, r.req))
            => /\ last'.code \in {"DUPLICATE_EMAIL", "DUPLICATE_PHONE"}
               /\ users' = users]_vars

\* C15: a createStaff or updateStaff that interleaves with an
\* updatePermissions on its actor never stores a staff set that holds a pair
\* the actor's stored set does not grant at the moment of the write
C15_StaleWriteNotApplied ==
  [][\A r \in inflight :
       /\ (r.op = "createStaff" /\ r.step = "save" /\ createStaffSave(r)
            /\ Len(users') > Len(users))
            => ~exceeds(users'[r.actor].permissions, users'[Len(users')].permissions)
       /\ (r.op = "updateStaff" /\ updateStaffSave(r) /\ last'.code = "OK")
            => ~exceeds(users'[r.actor].permissions, users'[r.target].permissions)]_vars

\* C20: after any sequence of lookups, listings, creations and permission
\* updates that use a preset's table, getPresetRole(k) returns the table it
\* returned at initialization, for each of the four preset keys
C20_PresetLookupStable ==
  /\ \A key \in PresetKeys :
       getPresetRole(registry, key).permissions = PRESET_ROLES[key].permissions
  /\ (decision.check = "getPresetRole" /\ decision.module \in PresetKeys)
       => decision.candidate = PRESET_ROLES[decision.module].permissions

C20_Witness ==
  /\ last.op = "getPresetRole"
  /\ decision.check = "getPresetRole"
  /\ decision.module = "financeAdmin"
  /\ decision.candidate = PRESET_ROLES.financeAdmin.permissions
  /\ nops >= 4
  /\ Len(users) >= 1
  /\ users[1].permissions = PRESET_ROLES.manager.permissions

\* a principal whose role tag is not superadmin (any other tag, or none)
nonSuperAdmin(user) == user.present /\ user.role # "superadmin"

\* C21 as stated: for a principal that is not a SuperAdmin, checkPermissions
\* allows exactly when every listed pair is true in the stored set, and on
\* denial the reported missing list is exactly the listed pairs that are not
\* true, every one of them in the order listed
C21_RequireAllExact ==
  (decision.check = "checkPermissions" /\ nonSuperAdmin(principal))
    => LET listed == decision.permissions
           untrue == {i \in 1..Len(listed) :
                        ~ReadTrue(principal.permissions, listed[i][1], listed[i][2])}
       IN /\ decision.code \in {"next", "PERMISSION_DENIED"}
          /\ decision.code = "next" <=> untrue = {}
          /\ Len(decision.missing) = Cardinality(untrue)
          /\ Range(decision.missing) = {dotted(listed[i]) : i \in untrue}

\* C22 as stated: for a principal that is not a SuperAdmin, checkModuleAccess,
\* User.hasModuleAccess and requireCenterAdminModuleAccess each allow exactly
\* when at least one action of the module is true in the stored set; a true
\* action other than view is enough
C22_ModuleAccessIsAnyAction ==
  (/\ decision.check \in {"checkModuleAccess", "hasModuleAccess",
                           "requireCenterAdminModuleAccess"}
   /\ nonSuperAdmin(principal))
    => (decision.code = "next"
          <=> /\ principal.permissions.defined
              /\ decision.module \in principal.permissions.mods
              /\ \E p \in principal.permissions.t : p[1] = decision.module)

\* C28 as stated: for every principal whose role tag is not superadmin
\* (another tag, or none), checkPermission, hasPermission, User.hasPermission
\* and requireCenterAdminPermission allow a pair only if the stored set holds
\* it true
C28_OnlySuperAdminBypasses ==
  (/\ decision.check \in {"checkPermission", "hasPermission", "userHasPermission",
                           "requireCenterAdminPermission"}
   /\ nonSuperAdmin(principal)
   /\ decision.code = "next")
    => ReadTrue(principal.permissions, decision.module, decision.action)

staffOf(db) ==
  {<<i, db[i].createdBy>> : i \in {j \in 1..Len(db) : /\ db[j].role = USER_ROLES.STAFF
                                                      /\ db[j].createdByModel = "User"
                                                      /\ db[j].createdBy \in 1..Len(db)}}

\* C24 as stated: whenever no operation is in progress, each Staff account's
\* stored set holds no pair that the current stored set of the Admin that
\* created it does not hold, also after updatePermissions or updateAdmin has
\* reduced the Admin's set
C24_StaffWithinCreatorSet ==
  last.op = "none"
    => \A link \in staffOf(users) :
         ~exceeds(users[link[2]].permissions, users[link[1]].permissions)

\* C25 as stated: whenever no operation is in progress, every Staff account
\* created by an inactive Admin or CenterAdmin is itself inactive, also when
\* a createStaff or reactivateStaff of that Admin interleaves with the
\* Admin's deactivation
C25_InactiveCreatorHasInactiveStaff ==
  (last.op = "none" /\ inflight = {})
    => \A link \in staffOf(users) :
         ~users[link[2]].isActive => ~users[link[1]].isActive

\* C26 as stated: of two Deactivate requests for the same active Admin or
\* CenterAdmin that run concurrently, the one whose write finds the account
\* already inactive is rejected with ALREADY_DEACTIVATED, so that a
\* deactivation is reported and audited once
C26_OneDeactivationReported ==
  [][\A r \in inflight :
       (/\ r.op = "deactivateAdmin"
        /\ r.step = "save"
        /\ deactivateAdminSave(r)
        /\ ~users[r.target].isActive)
         => /\ last'.op = "deactivateAdmin"
            /\ last'.code = "ALREADY_DEACTIVATED"]_vars

\* the created-by links of the collection agree in both directions
linksAgree(db) ==
  \A a \in 1..Len(db) :
    /\ \A k \in 1..Len(db[a].staffCreated) :
         /\ db[a].staffCreated[k] \in 1..Len(db)
         /\ db[db[a].staffCreated[k]].createdBy = a
         /\ db[db[a].staffCreated[k]].createdByModel = "User"
         /\ \A m \in 1..Len(db[a].staffCreated) :
              db[a].staffCreated[m] = db[a].staffCreated[k] => m = k
    /\ \A link \in staffOf(db) : link[2] = a => link[1] \in Range(db[a].staffCreated)

\* C27 as stated: whenever no createStaff is in progress, a Staff account has
\* createdBy = A exactly when its id is in A's staffCreated, once; also after
\* a createStaff that failed after the account was saved
C27_CreatedByLinksAgree ==
  (last.op # "createStaff" /\ \A r \in inflight : r.op # "createStaff")
    => linksAgree(users)

\* the requests that authenticate as an account through protect
authenticatedOps ==
  {"createStaff", "updateStaff", "deactivateStaff", "reactivateStaff",
   "createCenterAdmin", "deactivateCenterAdmin", "reactivateCenterAdmin"}

\* C29 as stated: once a Deactivate of an Admin or CenterAdmin has completed,
\* every Staff of its created-set is an account protect rejects, and a
\* request that authenticates as an inactive account is answered by protect
\* and goes no further
C29_DeactivatedAccountsRejected ==
  [][/\ \A r \in inflight :
          (r.op = "deactivateAdmin" /\ r.step = "cascade" /\ deactivateAdminCascade(r))
            => \A s \in Range(users'[r.target].staffCreated) :
                 protect(users', s) = "UNAUTHENTICATED"
     /\ (/\ nops' = nops + 1
         /\ last'.op \in authenticatedOps
         /\ last'.actor \in 1..Len(users)
         /\ ~users[last'.actor].isActive)
          => (last'.code = "UNAUTHENTICATED" /\ users' = users /\ inflight' = inflight)
     /\ \A r \in inflight' \ inflight :
          (r.op \in {"createStaff", "updateStaff"} /\ nops' = nops + 1)
            => users[r.actor].isActive]_vars

\* C30 as stated: no operation removes an account record, and no operation
\* changes the role of an existing Admin, CenterAdmin or Staff account
C30_KindFixedNoRemoval ==
  [][/\ Len(users') >= Len(users)
     /\ \A i \in 1..Len(users) :
          users[i].role \in {USER_ROLES.ADMIN, USER_ROLES.CENTER_ADMIN, USER_ROLES.STAFF}
            => users'[i].role = users[i].role]_vars

====
